---- MODULE Spec2Model ----
(***************************************************************************)
(* Model of the image-generator client: the error classifier               *)
(* (parseApiError and helpers), the response parser (processImageResponse),*)
(* the generation client (generateImage / editImage) and the two           *)
(* conversation views (ImageStudio, Chatbot) mounted by App.               *)
(*                                                                         *)
(* JavaScript strings are TLA+ strings; includes / toLowerCase / trim are  *)
(* computed character by character.                                        *)
(***************************************************************************)
EXTENDS Integers, Sequences, FiniteSets, Bags, TLC

VARIABLES
    ai,         \* geminiService: whether the module-level client exists
    arg,        \* harness: the argument handed to the function under check
    ret,        \* harness: the sequence of values the calls produced so far
    variant,    \* which of the two ImageStudio components App imports
    activeTab,  \* App: useState<Tab>
    studio,     \* ImageStudio (transcript) instance state while mounted
    panel,      \* ImageStudio (two-panel) instance state while mounted
    chat,       \* Chatbot instance state (meaningful while mounted)
    requests,   \* bag of the calls that have been issued and not yet settled
    now,        \* the wall clock read by Date.now()
    lastEvent   \* the handler invoked by the latest step and what it did

vars ==
    <<ai, arg, ret, variant, activeTab, studio, panel, chat, requests, now,
      lastEvent>>
uiVars == <<variant, activeTab, studio, panel, chat, requests, now, lastEvent>>
harnessVars == <<arg, ret>>

----------------------------------------------------------------------------
(* Bounds *)

MaxFrags == 2       \* fragments concatenated into a raw error message
MaxCands == 2       \* candidates in a response envelope
MaxMsgs == 4        \* transcript length from which no further submit is explored
MaxClock == 1       \* largest clock value explored
MaxRequests == 2    \* unresolved remote calls explored at once

----------------------------------------------------------------------------
(* JavaScript string primitives *)

UpperChars == "ABCDEFGHIJKLMNOPQRSTUVWXYZ"
LowerChars == "abcdefghijklmnopqrstuvwxyz"
WhiteSpace == {" ", "\t", "\n", "\r"}

charAt(s, i) == SubSeq(s, i, i)

UpperSet == {charAt(UpperChars, i) : i \in 1..Len(UpperChars)}

LowerMap ==
    [c \in UpperSet |->
        charAt(LowerChars,
               CHOOSE i \in 1..Len(UpperChars) : charAt(UpperChars, i) = c)]

LowerChar(c) == IF c \in UpperSet THEN LowerMap[c] ELSE c

\* the characters of s from position i on, in lower case
RECURSIVE toLowerCaseFrom(_, _)
toLowerCaseFrom(s, i) ==
    IF i > Len(s) THEN ""
    ELSE LowerChar(charAt(s, i)) \o toLowerCaseFrom(s, i + 1)

toLowerCase(s) == toLowerCaseFrom(s, 1)

includes(s, k) ==
    \E i \in 1..(Len(s) - Len(k) + 1) : SubSeq(s, i, i + Len(k) - 1) = k

RECURSIVE trimStart(_)
trimStart(s) ==
    IF Len(s) > 0 /\ charAt(s, 1) \in WhiteSpace
    THEN trimStart(SubSeq(s, 2, Len(s)))
    ELSE s

RECURSIVE trimEnd(_)
trimEnd(s) ==
    IF Len(s) > 0 /\ charAt(s, Len(s)) \in WhiteSpace
    THEN trimEnd(SubSeq(s, 1, Len(s) - 1))
    ELSE s

trim(s) == trimEnd(trimStart(s))

----------------------------------------------------------------------------
(* JavaScript values that reach the classifier.  kind is the run-time      *)
(* shape; has is the set of own properties among type / message /          *)
(* userFriendlyMessage; a property outside has holds "".                   *)

Props == {"type", "message", "userFriendlyMessage"}

JsError(msg) ==
    [kind |-> "Error", has |-> {"message"}, message |-> msg,
     type |-> "", userFriendlyMessage |-> ""]
JsString(s) ==
    [kind |-> "string", has |-> {}, message |-> s,
     type |-> "", userFriendlyMessage |-> ""]
JsNull ==
    [kind |-> "null", has |-> {}, message |-> "",
     type |-> "", userFriendlyMessage |-> ""]
JsUndefined ==
    [kind |-> "undefined", has |-> {}, message |-> "",
     type |-> "", userFriendlyMessage |-> ""]

\* `error && typeof error === 'object'`
isObject(v) == v.kind \in {"Error", "object"}

\* String(error) for the kinds modelled; a string converts to itself
String(v) ==
    CASE v.kind = "string" -> v.message
      [] v.kind = "null" -> "null"
      [] v.kind = "undefined" -> "undefined"
      [] v.kind = "Error" ->
            IF v.message = "" THEN "Error" ELSE "Error: " \o v.message
      [] OTHER -> "[object Object]"

----------------------------------------------------------------------------
(* Error classifier *)

API_KEY_INVALID == "API_KEY_INVALID"
RATE_LIMIT_EXCEEDED == "RATE_LIMIT_EXCEEDED"
QUOTA_EXCEEDED == "QUOTA_EXCEEDED"
NETWORK_ERROR == "NETWORK_ERROR"
SERVICE_UNAVAILABLE == "SERVICE_UNAVAILABLE"
CONTENT_BLOCKED == "CONTENT_BLOCKED"
UNKNOWN_ERROR == "UNKNOWN_ERROR"
API_NOT_CONFIGURED == "API_NOT_CONFIGURED"

ErrorType ==
    {API_KEY_INVALID, RATE_LIMIT_EXCEEDED, QUOTA_EXCEEDED, NETWORK_ERROR,
     SERVICE_UNAVAILABLE, CONTENT_BLOCKED, UNKNOWN_ERROR, API_NOT_CONFIGURED}

ApiKeyKeywords ==
    {"api key", "invalid api key", "unauthorized", "401", "403",
     "authentication", "permission denied"}
RateLimitKeywords == {"rate limit", "429", "too many requests", "request rate"}
QuotaKeywords ==
    {"quota", "quota exceeded", "billing", "payment", "resource exhausted"}
NetworkKeywords ==
    {"network", "fetch", "connection", "timeout", "econnrefused", "enotfound"}
UnavailableKeywords ==
    {"503", "service unavailable", "temporarily unavailable", "maintenance"}
BlockedKeywords == {"blocked", "safety", "content policy", "not allowed"}

ApiKeyText ==
    "API key is invalid or has been revoked. Please check your API_KEY in the .env file and ensure it's correct."
RateLimitText ==
    "Rate limit exceeded. Please wait a few moments and try again. Too many requests were made in a short time."
QuotaText ==
    "API quota has been exceeded. Your API key has reached its usage limit. Please check your billing and quota limits, or wait until the quota resets."
NetworkText ==
    "Network error. Please check your internet connection and try again. If the problem persists, the API service may be temporarily unavailable."
UnavailableText ==
    "Service is temporarily unavailable. The API service is down or under maintenance. Please try again later."
BlockedText ==
    "Request blocked. The content violates the API's safety policies. Please try rephrasing your request."
UnknownText(errorMessage) ==
    "An unexpected error occurred: " \o errorMessage
        \o ". Please try again or contact support if the issue persists."

\* the object literal { type, message, userFriendlyMessage }
ApiError(type, message, userFriendlyMessage) ==
    [kind |-> "object", has |-> Props, message |-> message,
     type |-> type, userFriendlyMessage |-> userFriendlyMessage]

includesAny(errorString, keywords) ==
    \E k \in keywords : includes(errorString, k)

\* the keyword cascade with the network test moved in front of the auth test
classifyMessage_NetworkFirst(errorMessage) ==
    LET errorString == toLowerCase(errorMessage) IN
    IF includesAny(errorString, NetworkKeywords)
    THEN ApiError(NETWORK_ERROR, errorMessage, NetworkText)
    ELSE IF includesAny(errorString, ApiKeyKeywords)
    THEN ApiError(API_KEY_INVALID, errorMessage, ApiKeyText)
    ELSE IF includesAny(errorString, RateLimitKeywords)
    THEN ApiError(RATE_LIMIT_EXCEEDED, errorMessage, RateLimitText)
    ELSE IF includesAny(errorString, QuotaKeywords)
    THEN ApiError(QUOTA_EXCEEDED, errorMessage, QuotaText)
    ELSE IF includesAny(errorString, UnavailableKeywords)
    THEN ApiError(SERVICE_UNAVAILABLE, errorMessage, UnavailableText)
    ELSE IF includesAny(errorString, BlockedKeywords)
    THEN ApiError(CONTENT_BLOCKED, errorMessage, BlockedText)
    ELSE ApiError(UNKNOWN_ERROR, errorMessage, UnknownText(errorMessage))

\* parseApiError from `const errorString` to its last return
classifyMessage(errorMessage) ==
    LET errorString == toLowerCase(errorMessage) IN
    IF includesAny(errorString, ApiKeyKeywords)
    THEN ApiError(API_KEY_INVALID, errorMessage, ApiKeyText)
    ELSE IF includesAny(errorString, RateLimitKeywords)
    THEN ApiError(RATE_LIMIT_EXCEEDED, errorMessage, RateLimitText)
    ELSE IF includesAny(errorString, QuotaKeywords)
    THEN ApiError(QUOTA_EXCEEDED, errorMessage, QuotaText)
    ELSE IF includesAny(errorString, NetworkKeywords)
    THEN ApiError(NETWORK_ERROR, errorMessage, NetworkText)
    ELSE IF includesAny(errorString, UnavailableKeywords)
    THEN ApiError(SERVICE_UNAVAILABLE, errorMessage, UnavailableText)
    ELSE IF includesAny(errorString, BlockedKeywords)
    THEN ApiError(CONTENT_BLOCKED, errorMessage, BlockedText)
    ELSE ApiError(UNKNOWN_ERROR, errorMessage, UnknownText(errorMessage))

\* `error instanceof Error ? error.message : String(error)`
errorMessageOf(error) ==
    IF error.kind = "Error" THEN error.message ELSE String(error)

\* the classifier without its already-parsed check
parseApiError_NoPassThrough(error) == classifyMessage(errorMessageOf(error))

parseApiError(error) ==
    IF isObject(error) /\ "type" \in error.has
                       /\ "userFriendlyMessage" \in error.has
    THEN error
    ELSE classifyMessage(errorMessageOf(error))

----------------------------------------------------------------------------
(* Inputs of the classifier *)

Fragments ==
    {"API key", "401", "Rate limit", "Quota", "Network", "fetch", "503",
     "SAFETY", "oops"}

RECURSIVE Concats(_)
Concats(n) ==
    IF n = 0 THEN {""}
    ELSE LET shorter == Concats(n - 1) IN
         shorter \cup {s \o f : s \in shorter, f \in Fragments}

RawMessages == Concats(MaxFrags)

TypeValues == {"QUOTA_EXCEEDED", "BANANA"}
FriendlyValues == {"", "Custom friendly text"}

\* the own-property combinations an error-like object may carry
WithFields(v) ==
    {v}
    \cup {[v EXCEPT !.has = @ \cup {"type"}, !.type = t] : t \in TypeValues}
    \cup {[v EXCEPT !.has = @ \cup {"userFriendlyMessage"},
                    !.userFriendlyMessage = u] : u \in FriendlyValues}
    \cup {[v EXCEPT !.has = @ \cup {"type", "userFriendlyMessage"},
                    !.type = t, !.userFriendlyMessage = u] :
            t \in TypeValues, u \in FriendlyValues}

PlainObjects ==
    UNION {WithFields([kind |-> "object", has |-> h, message |-> m,
                       type |-> "", userFriendlyMessage |-> ""]) :
             <<h, m>> \in {<<{}, "">>, <<{"message"}, "quota">>}}

ErrorValues ==
    UNION {WithFields(JsError(m)) : m \in RawMessages}
    \cup {JsString(m) : m \in RawMessages}
    \cup PlainObjects
    \cup {JsNull, JsUndefined}

----------------------------------------------------------------------------
(* Initial state of the views; the harness specifications keep it fixed *)

Unmounted == [mounted |-> FALSE]

UiIdle ==
    /\ ai = TRUE
    /\ variant = "transcript"
    /\ activeTab = "studio"
    /\ studio = Unmounted
    /\ panel = Unmounted
    /\ chat = Unmounted
    /\ requests = EmptyBag
    /\ now = 0
    /\ lastEvent = [name |-> "none", accepted |-> FALSE]

----------------------------------------------------------------------------
(* Specification of the classifier: one input, classified, then            *)
(* classified again                                                        *)

ClassifyInit ==
    /\ arg \in ErrorValues
    /\ ret = <<>>
    /\ UiIdle

Classify ==
    /\ Len(ret) = 0
    /\ ret' = <<parseApiError(arg)>>
    /\ UNCHANGED <<ai, arg, uiVars>>

Reclassify ==
    /\ Len(ret) = 1
    /\ ret' = Append(ret, parseApiError(ret[1]))
    /\ UNCHANGED <<ai, arg, uiVars>>

ClassifyNext == Classify \/ Reclassify

SpecClassify == ClassifyInit /\ [][ClassifyNext]_vars

----------------------------------------------------------------------------
(* Response parser.  A response envelope is                                *)
(*   [candidates, blockReason, blockReasonMessage, text]                   *)
(* where an optional string that is absent is "" (absent and empty are     *)
(* both falsy where the code tests them), a candidate is                   *)
(* [parts, finishReason] and a part is [inlineData, mimeType, data].       *)

TextPart == [inlineData |-> FALSE, mimeType |-> "", data |-> ""]
InlinePart(mimeType, data) ==
    [inlineData |-> TRUE, mimeType |-> mimeType, data |-> data]

Return(url) == [tag |-> "return", url |-> url, error |-> JsNull]
Throw(error) == [tag |-> "throw", url |-> "", error |-> error]

\* `response.candidates?.[0]?.content?.parts || []`
firstParts(response) ==
    IF Len(response.candidates) >= 1 THEN response.candidates[1].parts
    ELSE <<>>

\* `response.candidates?.[0]?.finishReason`
firstFinishReason(response) ==
    IF Len(response.candidates) >= 1 THEN response.candidates[1].finishReason
    ELSE ""

dataUri(part) == "data:" \o part.mimeType \o ";base64," \o part.data

blockedMessage(response) ==
    "Request blocked due to " \o response.blockReason \o "."
        \o (IF response.blockReasonMessage # ""
            THEN " " \o response.blockReasonMessage ELSE "")

\* what follows the block-reason test: finish reason, text, generic failure
afterBlockCheck(response) ==
    LET finishReason == firstFinishReason(response)
        textResponse == response.text
    IN  IF finishReason # "" /\ finishReason # "STOP"
        THEN IF finishReason = "NO_IMAGE"
             THEN IF textResponse # ""
                  THEN Throw(JsError(
                         "Model provided an explanation instead of an image: \""
                         \o trim(textResponse) \o "\""))
                  ELSE Throw(JsError(
                         "The model was unable to generate an image for this prompt. Please try rephrasing your request."))
             ELSE Throw(JsError(
                    "Image generation stopped unexpectedly. Reason: "
                    \o finishReason \o "."))
        ELSE IF textResponse # ""
        THEN Throw(JsError(
               "Model returned a text explanation instead of an image: \""
               \o trim(textResponse) \o "\""))
        ELSE Throw(JsError(
               "No image data found in response. The model may have failed to generate an image for the given prompt."))

\* the parser with the block-reason test moved in front of the part scan
processImageResponse_BlockFirst(response) ==
    LET parts == firstParts(response)
        inline == {i \in 1..Len(parts) : parts[i].inlineData}
    IN  IF response.blockReason # ""
        THEN Throw(JsError(blockedMessage(response)))
        ELSE IF inline # {}
        THEN Return(dataUri(parts[CHOOSE i \in inline : \A j \in inline : i <= j]))
        ELSE afterBlockCheck(response)

processImageResponse(response) ==
    LET parts == firstParts(response)
        inline == {i \in 1..Len(parts) : parts[i].inlineData}
    IN  IF inline # {}
        THEN Return(dataUri(parts[CHOOSE i \in inline : \A j \in inline : i <= j]))
        ELSE IF response.blockReason # ""
        THEN Throw(JsError(blockedMessage(response)))
        ELSE afterBlockCheck(response)

----------------------------------------------------------------------------
(* Inputs of the response parser *)

PartsPool ==
    { <<>>,
      <<TextPart>>,
      <<TextPart, InlinePart("image/jpeg", "/9j/4AAQ"),
        InlinePart("image/png", "iVBORw0KGgo=")>> }

FinishReasons == {"", "STOP", "NO_IMAGE", "MAX_TOKENS", "SAFETY"}

Candidates ==
    {[parts |-> ps, finishReason |-> f] : ps \in PartsPool, f \in FinishReasons}

\* the candidates that follow the first one
LaterCandidates ==
    {c \in Candidates : /\ c.finishReason \in {"STOP", "NO_IMAGE"}
                        /\ Len(c.parts) # 1}

RECURSIVE CandidateLists(_)
CandidateLists(n) ==
    IF n = 0 THEN {<<>>}
    ELSE IF n = 1 THEN {<<>>} \cup {<<c>> : c \in Candidates}
    ELSE LET shorter == CandidateLists(n - 1) IN
         shorter \cup {Append(cs, c) :
                          cs \in {l \in shorter : Len(l) = n - 1},
                          c \in LaterCandidates}

BlockReasons == {"SAFETY", "OTHER"}
BlockReasonMessages == {"", "Check your network policy."}

PromptFeedbacks ==
    {<<"", "">>} \cup (BlockReasons \X BlockReasonMessages)

ResponseTexts ==
    {"", "I cannot draw that", "  I cannot draw that\n",
     "This request is not allowed"}

Envelopes ==
    {[candidates |-> cs, blockReason |-> pf[1], blockReasonMessage |-> pf[2],
      text |-> t] :
        cs \in CandidateLists(MaxCands), pf \in PromptFeedbacks,
        t \in ResponseTexts}

----------------------------------------------------------------------------
(* Specification of the response parser: one envelope is parsed, and a     *)
(* failure it raises is classified as the callers classify it              *)

ParseInit ==
    /\ arg \in Envelopes
    /\ ret = <<>>
    /\ UiIdle

ProcessImageResponse ==
    /\ Len(ret) = 0
    /\ ret' = <<processImageResponse(arg)>>
    /\ UNCHANGED <<ai, arg, uiVars>>

ClassifyFailure ==
    /\ Len(ret) = 1
    /\ ret[1].tag = "throw"
    /\ ret' = Append(ret, parseApiError(ret[1].error))
    /\ UNCHANGED <<ai, arg, uiVars>>

ParseNext == ProcessImageResponse \/ ClassifyFailure

SpecParse == ParseInit /\ [][ParseNext]_vars

----------------------------------------------------------------------------
(* Generation client.  A file is [name, type, base64, readable]; a file    *)
(* that cannot be read makes FileReader end with result = null.            *)

NotConfiguredMessage ==
    "Gemini API key not configured. Please set the API_KEY environment variable."

\* `str.split(',')[1]`: the text between the first and the second comma
secondPiece(str) ==
    LET commas == {i \in 1..Len(str) : charAt(str, i) = ","} IN
    IF commas = {} THEN ""
    ELSE LET first == CHOOSE i \in commas : \A j \in commas : i <= j
             later == {i \in commas : i > first}
             stop == IF later = {} THEN Len(str) + 1
                     ELSE CHOOSE i \in later : \A j \in later : i <= j
         IN  SubSeq(str, first + 1, stop - 1)

readAsDataURL(file) == "data:" \o file.type \o ";base64," \o file.base64

\* The promise of fileToGenerativePart: settled with the inline part, or
\* never settled when the read fails (the onloadend callback throws on the
\* null result before it calls resolve).
fileToGenerativePart(file) ==
    IF file.readable
    THEN [settled |-> TRUE,
          part |-> InlinePart(file.type, secondPiece(readAsDataURL(file)))]
    ELSE [settled |-> FALSE, part |-> TextPart]

Pending == [tag |-> "pending", url |-> "", error |-> JsNull]

NoImage == TextPart

\* what a call did: its outcome, how many images it started to encode and
\* the requests it sent to the remote model
Outcome(result, encodings, calls) ==
    [result |-> result, encodings |-> encodings, calls |-> calls]

\* the remote side of generateContent: a response envelope or a rejection
Resolved(response) == [ok |-> TRUE, response |-> response, error |-> JsNull]
Rejected(error) ==
    [ok |-> FALSE,
     response |-> [candidates |-> <<>>, blockReason |-> "",
                   blockReasonMessage |-> "", text |-> ""],
     error |-> error]

afterGenerateContent(remote) ==
    IF remote.ok THEN processImageResponse(remote.response)
    ELSE Throw(remote.error)

generateImage(aiInstance, prompt, remote) ==
    IF ~aiInstance THEN Outcome(Throw(JsError(NotConfiguredMessage)), 0, <<>>)
    ELSE Outcome(afterGenerateContent(remote), 0,
                 <<[model |-> "gemini-2.5-flash-image", text |-> prompt,
                    image |-> NoImage]>>)

editImage(aiInstance, prompt, image, remote) ==
    IF ~aiInstance THEN Outcome(Throw(JsError(NotConfiguredMessage)), 0, <<>>)
    ELSE LET imagePart == fileToGenerativePart(image) IN
         IF ~imagePart.settled THEN Outcome(Pending, 1, <<>>)
         ELSE Outcome(afterGenerateContent(remote), 1,
                      <<[model |-> "gemini-2.5-flash-image", text |-> prompt,
                         image |-> imagePart.part]>>)

----------------------------------------------------------------------------
(* Inputs of the generation client *)

Prompts == {"", "  ", "a cat"}

PngFile ==
    [name |-> "cat.png", type |-> "image/png", base64 |-> "iVBORw0KGgo=",
     readable |-> TRUE]
BrokenFile ==
    [name |-> "gone.jpg", type |-> "image/jpeg", base64 |-> "",
     readable |-> FALSE]
Files == {PngFile, BrokenFile}

ImageEnvelope ==
    [candidates |-> <<[parts |-> <<InlinePart("image/png", "iVBORw0KGgo=")>>,
                       finishReason |-> "STOP"]>>,
     blockReason |-> "", blockReasonMessage |-> "", text |-> ""]
BlockedEnvelope ==
    [candidates |-> <<>>, blockReason |-> "SAFETY",
     blockReasonMessage |-> "", text |-> ""]

QuotaFailure == JsError("Quota exceeded for quota metric 'Generate requests'")

RemoteOutcomes ==
    {Resolved(ImageEnvelope), Resolved(BlockedEnvelope),
     Rejected(QuotaFailure), Rejected(JsString("timeout"))}

\* the outcomes explored for the calls the views issue
ViewOutcomes ==
    {Resolved(ImageEnvelope), Rejected(QuotaFailure),
     Rejected(JsString("timeout"))}

----------------------------------------------------------------------------
(* Specification of the generation client: one call of generateImage or    *)
(* editImage, with or without a configured client, and the classification  *)
(* of its failure                                                          *)

ServiceInit ==
    /\ ai \in BOOLEAN
    /\ arg \in [op : {"generate", "edit"}, prompt : Prompts, image : Files,
                remote : RemoteOutcomes]
    /\ ret = <<>>
    /\ variant = "transcript"
    /\ activeTab = "studio"
    /\ studio = Unmounted
    /\ panel = Unmounted
    /\ chat = Unmounted
    /\ requests = EmptyBag
    /\ now = 0
    /\ lastEvent = [name |-> "none", accepted |-> FALSE]

CallGenerateImage ==
    /\ Len(ret) = 0
    /\ arg.op = "generate"
    /\ ret' = <<generateImage(ai, arg.prompt, arg.remote)>>
    /\ UNCHANGED <<ai, arg, uiVars>>

CallEditImage ==
    /\ Len(ret) = 0
    /\ arg.op = "edit"
    /\ ret' = <<editImage(ai, arg.prompt, arg.image, arg.remote)>>
    /\ UNCHANGED <<ai, arg, uiVars>>

ClassifyCallFailure ==
    /\ Len(ret) = 1
    /\ ret[1].result.tag = "throw"
    /\ ret' = Append(ret, parseApiError(ret[1].result.error))
    /\ UNCHANGED <<ai, arg, uiVars>>

ServiceNext == CallGenerateImage \/ CallEditImage \/ ClassifyCallFailure

SpecService == ServiceInit /\ [][ServiceNext]_vars

----------------------------------------------------------------------------
(* Error helpers used by the views *)

getUserFriendlyErrorMessage(error) ==
    IF isObject(error) /\ "userFriendlyMessage" \in error.has
    THEN error.userFriendlyMessage
    ELSE parseApiError(error).userFriendlyMessage

isErrorType(error, type) ==
    IF isObject(error) /\ "type" \in error.has
    THEN error.type = type
    ELSE parseApiError(error).type = type

\* the helpers applied to the inputs of the classifier
GetUserFriendlyErrorMessage ==
    /\ Len(ret) = 0
    /\ ret' = <<[call |-> "getUserFriendlyErrorMessage", type |-> "",
                 text |-> getUserFriendlyErrorMessage(arg), flag |-> FALSE]>>
    /\ UNCHANGED <<ai, arg, uiVars>>

IsErrorType(type) ==
    /\ Len(ret) = 0
    /\ ret' = <<[call |-> "isErrorType", type |-> type, text |-> "",
                 flag |-> isErrorType(arg, type)]>>
    /\ UNCHANGED <<ai, arg, uiVars>>

HelpersNext ==
    \/ GetUserFriendlyErrorMessage
    \/ \E type \in ErrorType : IsErrorType(type)

SpecHelpers == ClassifyInit /\ [][HelpersNext]_vars

----------------------------------------------------------------------------
(* The views.  App renders ImageStudio or Chatbot according to activeTab;  *)
(* the view that is not rendered is unmounted and its state is gone, the   *)
(* view that is rendered again starts from its initial state.  A remote    *)
(* call outlives the view that issued it: `live` tells whether the issuing *)
(* instance is still mounted when the call settles.                        *)

NoFile == [name |-> "", type |-> "", base64 |-> "", readable |-> FALSE]

createObjectURL(file) == "blob:" \o file.name

StudioMessage(id, role, text, imageUrl, originalImageUrl) ==
    [id |-> id, role |-> role, text |-> text, imageUrl |-> imageUrl,
     originalImageUrl |-> originalImageUrl]

ChatMessage(role, text) == [role |-> role, text |-> text]

NoRequest ==
    [view |-> "none", live |-> FALSE, op |-> "none", prompt |-> "",
     image |-> NoFile]

\* name is "studio.submit", "chat.send", "panel.action" for a submit
\* handler, "*.resolve" / "panel.readEnd" for a settled call, and "input"
\* for every other event (typing, picking a file, a tab click, time passing)
Event(name, accepted) ==
    [name |-> name, accepted |-> accepted, request |-> NoRequest,
     result |-> Pending]

Settled(name, request, result) ==
    [name |-> name, accepted |-> request.live, request |-> request,
     result |-> result]

Issue(request) == requests (+) SetToBag({request})
Settle(request) == requests (-) SetToBag({request})
InFlight == BagCardinality(requests)

\* ImageStudio after its mount effect has run
MountStudio ==
    [mounted |-> TRUE,
     messages |->
        IF ~ai
        THEN <<StudioMessage("api-error", "model",
                 "Configuration needed. Please set the API_KEY environment variable to use the Image Studio.",
                 "", "")>>
        ELSE <<StudioMessage("initial", "model",
                 "Welcome to the Image Studio! Describe the image you want to create, or upload an image to edit.",
                 "", "")>>,
     prompt |-> "",
     imageFile |-> NoFile,
     isLoading |-> FALSE,
     error |-> "",
     isApiReady |-> ai]

\* Chatbot after its mount effect has run
MountChat ==
    [mounted |-> TRUE,
     chat |-> ai,
     messages |->
        IF ~ai
        THEN <<ChatMessage("model",
                 "Configuration needed. Please set the API_KEY environment variable to use the chatbot.")>>
        ELSE <<ChatMessage("model",
                 "Hello! I'm Gemini. How can I help you today?")>>,
     currentMessage |-> "",
     isLoading |-> FALSE,
     isApiReady |-> ai]

\* the two-panel ImageStudio when mounted
MountPanel ==
    [mounted |-> TRUE, prompt |-> "", imageFile |-> NoFile, imageUrl |-> "",
     resultImageUrl |-> "", isLoading |-> FALSE, error |-> ""]

UiInit ==
    /\ ai \in BOOLEAN
    /\ arg = "none"
    /\ ret = <<>>
    /\ variant \in {"transcript", "panel"}
    /\ activeTab = "studio"
    /\ studio = (IF variant = "transcript" THEN MountStudio ELSE Unmounted)
    /\ panel = (IF variant = "panel" THEN MountPanel ELSE Unmounted)
    /\ chat = Unmounted
    /\ requests = EmptyBag
    /\ now = 0
    /\ lastEvent = Event("none", FALSE)

\* TabButton onClick: setActiveTab(tabName)
SetActiveTab(tabName) ==
    /\ tabName # activeTab
    /\ activeTab' = tabName
    /\ studio' = IF tabName = "studio" /\ variant = "transcript"
                 THEN MountStudio ELSE Unmounted
    /\ panel' = IF tabName = "studio" /\ variant = "panel"
                THEN MountPanel ELSE Unmounted
    /\ chat' = IF tabName = "chat" THEN MountChat ELSE Unmounted
    /\ requests' =
         LET orphaned(r) == IF r.view = activeTab
                            THEN [r EXCEPT !.live = FALSE] ELSE r
         IN  [q \in {orphaned(r) : r \in BagToSet(requests)} |->
                CopiesIn(q, requests)
                + (IF q.view = activeTab /\ ~q.live
                   THEN CopiesIn([q EXCEPT !.live = TRUE], requests)
                   ELSE 0)]
    /\ lastEvent' = Event("input", TRUE)
    /\ UNCHANGED <<ai, variant, now, harnessVars>>

\* Date.now() advances; only the transcript studio reads the clock
\* (message ids), so time is tracked while that view is mounted
Tick ==
    /\ studio.mounted
    /\ now < MaxClock
    /\ now' = now + 1
    /\ lastEvent' = Event("input", TRUE)
    /\ UNCHANGED <<ai, variant, activeTab, studio, panel, chat, requests,
                   harnessVars>>

(* ImageStudio *)

\* the prompt input: onChange, disabled while loading or not configured
StudioSetPrompt(value) ==
    /\ studio.mounted
    /\ ~studio.isLoading /\ studio.isApiReady
    /\ studio' = [studio EXCEPT !.prompt = value]
    /\ lastEvent' = Event("input", TRUE)
    /\ UNCHANGED <<ai, variant, activeTab, panel, chat, requests, now,
                   harnessVars>>

StudioHandleFileChange(file) ==
    /\ studio.mounted
    /\ studio.isApiReady
    /\ studio' = [studio EXCEPT !.imageFile = file]
    /\ lastEvent' = Event("input", TRUE)
    /\ UNCHANGED <<ai, variant, activeTab, panel, chat, requests, now,
                   harnessVars>>

StudioHandleRemoveImage ==
    /\ studio.mounted
    /\ studio.imageFile # NoFile
    /\ studio' = [studio EXCEPT !.imageFile = NoFile]
    /\ lastEvent' = Event("input", TRUE)
    /\ UNCHANGED <<ai, variant, activeTab, panel, chat, requests, now,
                   harnessVars>>

\* the early return of handleSubmit tested on the raw prompt
studioRejects_NoTrim(st) ==
    st.prompt = "" \/ st.isLoading \/ ~st.isApiReady

\* `if (!prompt.trim() || isLoading || !isApiReady) return;`
studioRejects(st) ==
    trim(st.prompt) = "" \/ st.isLoading \/ ~st.isApiReady

\* handleSubmit up to the first await
StudioHandleSubmit ==
    /\ studio.mounted
    /\ IF studioRejects(studio)
       THEN /\ lastEvent' = Event("studio.submit", FALSE)
            /\ UNCHANGED <<studio, requests>>
       ELSE /\ Len(studio.messages) < MaxMsgs
            /\ InFlight < MaxRequests
            /\ LET userMessage ==
                     StudioMessage(ToString(now), "user", studio.prompt, "",
                        IF studio.imageFile # NoFile
                        THEN createObjectURL(studio.imageFile) ELSE "")
                   currentPrompt == studio.prompt
                   currentImageFile == studio.imageFile
               IN  /\ studio' = [studio EXCEPT
                                   !.messages = Append(@, userMessage),
                                   !.isLoading = TRUE,
                                   !.error = "",
                                   !.prompt = "",
                                   !.imageFile = NoFile]
                   /\ requests' = Issue(
                         [view |-> "studio", live |-> TRUE,
                          op |-> IF currentImageFile # NoFile
                                 THEN "edit" ELSE "generate",
                          prompt |-> currentPrompt,
                          image |-> currentImageFile])
            /\ lastEvent' = Event("studio.submit", TRUE)
    /\ UNCHANGED <<ai, variant, activeTab, panel, chat, now, harnessVars>>

\* the success branch of handleSubmit, clearing the input fields when the
\* call completes
studioSuccess_ClearsAtCompletion(st, request, imageUrl) ==
    [st EXCEPT
       !.messages = Append(@,
          StudioMessage(ToString(now + 1), "model",
             "Here's an image based on your prompt: \"" \o request.prompt \o "\"",
             imageUrl,
             IF request.image # NoFile THEN createObjectURL(request.image)
             ELSE "")),
       !.isLoading = FALSE,
       !.prompt = "",
       !.imageFile = NoFile]

\* the state updates of the try block after the awaited call returned
studioSuccess(st, request, imageUrl) ==
    [st EXCEPT
       !.messages = Append(@,
          StudioMessage(ToString(now + 1), "model",
             "Here's an image based on your prompt: \"" \o request.prompt \o "\"",
             imageUrl,
             IF request.image # NoFile THEN createObjectURL(request.image)
             ELSE "")),
       !.isLoading = FALSE]

\* the catch and finally blocks
studioFailure(st, err) ==
    LET errorMessage == IF err.kind = "Error" THEN err.message
                        ELSE "An unknown error occurred."
    IN  [st EXCEPT
           !.error = "Failed to generate image: " \o errorMessage,
           !.messages = Append(@,
              StudioMessage(ToString(now + 1), "model",
                 "Sorry, I couldn't generate the image. Error: " \o errorMessage,
                 "", "")),
           !.isLoading = FALSE]

\* handleSubmit from the first await on: the call settles; the updates
\* reach the state only when the issuing instance is still mounted
StudioResolve(request, remote) ==
    /\ variant = "transcript"
    /\ BagIn(request, requests)
    /\ request.view = "studio"
    /\ LET outcome == IF request.op = "edit"
                      THEN editImage(ai, request.prompt, request.image, remote)
                      ELSE generateImage(ai, request.prompt, remote)
       IN  /\ outcome.result.tag # "pending"
           /\ studio' =
                IF ~request.live THEN studio
                ELSE IF outcome.result.tag = "return"
                THEN studioSuccess(studio, request, outcome.result.url)
                ELSE studioFailure(studio, outcome.result.error)
           /\ lastEvent' = Settled("studio.resolve", request, outcome.result)
    /\ requests' = Settle(request)
    /\ UNCHANGED <<ai, variant, activeTab, panel, chat, now, harnessVars>>

(* ImageStudio, two-panel component: no transcript, one result image *)

PanelSetPrompt(value) ==
    /\ panel.mounted
    /\ panel' = [panel EXCEPT !.prompt = value]
    /\ lastEvent' = Event("input", TRUE)
    /\ UNCHANGED <<ai, variant, activeTab, studio, chat, requests, now,
                   harnessVars>>

\* handleFileChange: the file is kept and a FileReader starts to read it
PanelHandleFileChange(file) ==
    /\ panel.mounted
    /\ InFlight < MaxRequests
    /\ panel' = [panel EXCEPT !.imageFile = file]
    /\ requests' = Issue(
          [view |-> "studio", live |-> TRUE, op |-> "read", prompt |-> "",
           image |-> file])
    /\ lastEvent' = Event("panel.fileChange", TRUE)
    /\ UNCHANGED <<ai, variant, activeTab, studio, chat, now, harnessVars>>

\* reader.onloadend of handleFileChange
PanelReadEnd(request) ==
    /\ BagIn(request, requests)
    /\ request.view = "studio"
    /\ request.op = "read"
    /\ panel' =
         IF ~request.live THEN panel
         ELSE [panel EXCEPT
                 !.imageUrl = IF request.image.readable
                              THEN readAsDataURL(request.image) ELSE "",
                 !.resultImageUrl = ""]
    /\ lastEvent' = Settled("panel.readEnd", request, Pending)
    /\ requests' = Settle(request)
    /\ UNCHANGED <<ai, variant, activeTab, studio, chat, now, harnessVars>>

\* the catch and finally blocks of handleAction
panelFailure(st, err) ==
    [st EXCEPT !.error = IF err.kind = "Error" THEN err.message
                         ELSE "An unknown error occurred.",
               !.isLoading = FALSE]

\* handleAction up to the first await.  Both buttons are disabled while
\* isLoading, which the handler itself does not test.  Without a client
\* the call is rejected by ensureAi before anything is awaited and the
\* catch block runs before any other event.
PanelHandleAction(action) ==
    /\ panel.mounted
    /\ ~panel.isLoading
    /\ IF trim(panel.prompt) = ""
       THEN /\ panel' = [panel EXCEPT !.error = "Please enter a prompt."]
            /\ lastEvent' = Event("panel.action", FALSE)
            /\ UNCHANGED requests
       ELSE IF action = "edit" /\ panel.imageFile = NoFile
       THEN /\ panel' = [panel EXCEPT
                           !.error = "Please upload an image to edit."]
            /\ lastEvent' = Event("panel.action", FALSE)
            /\ UNCHANGED requests
       ELSE IF ~ai
       THEN /\ panel' = panelFailure(
                  [panel EXCEPT !.resultImageUrl = ""],
                  (IF action = "generate"
                   THEN generateImage(ai, panel.prompt, Rejected(JsNull))
                   ELSE editImage(ai, panel.prompt, panel.imageFile,
                                  Rejected(JsNull))).result.error)
            /\ lastEvent' = Event("panel.action", TRUE)
            /\ UNCHANGED requests
       ELSE /\ InFlight < MaxRequests
            /\ panel' = [panel EXCEPT !.isLoading = TRUE, !.error = "",
                                      !.resultImageUrl = ""]
            /\ requests' = Issue(
                  [view |-> "studio", live |-> TRUE, op |-> action,
                   prompt |-> panel.prompt, image |-> panel.imageFile])
            /\ lastEvent' = Event("panel.action", TRUE)
    /\ UNCHANGED <<ai, variant, activeTab, studio, chat, now, harnessVars>>

\* handleAction from the first await on
PanelResolve(request, remote) ==
    /\ variant = "panel"
    /\ BagIn(request, requests)
    /\ request.view = "studio"
    /\ request.op \in {"generate", "edit"}
    /\ LET outcome == IF request.op = "edit"
                      THEN editImage(ai, request.prompt, request.image, remote)
                      ELSE generateImage(ai, request.prompt, remote)
       IN  /\ outcome.result.tag # "pending"
           /\ panel' =
                IF ~request.live THEN panel
                ELSE IF outcome.result.tag = "return"
                THEN [panel EXCEPT !.resultImageUrl = outcome.result.url,
                                   !.isLoading = FALSE]
                ELSE panelFailure(panel, outcome.result.error)
           /\ lastEvent' = Settled("panel.resolve", request, outcome.result)
    /\ requests' = Settle(request)
    /\ UNCHANGED <<ai, variant, activeTab, studio, chat, now, harnessVars>>

(* Chatbot *)

ChatSetCurrentMessage(value) ==
    /\ chat.mounted
    /\ ~chat.isLoading /\ chat.isApiReady
    /\ chat' = [chat EXCEPT !.currentMessage = value]
    /\ lastEvent' = Event("input", TRUE)
    /\ UNCHANGED <<ai, variant, activeTab, studio, panel, requests, now,
                   harnessVars>>

\* `if (!currentMessage.trim() || isLoading || !chat || !isApiReady) return;`
chatRejects(st) ==
    trim(st.currentMessage) = "" \/ st.isLoading \/ ~st.chat \/ ~st.isApiReady

\* handleSendMessage up to the await
ChatHandleSendMessage ==
    /\ chat.mounted
    /\ IF chatRejects(chat)
       THEN /\ lastEvent' = Event("chat.send", FALSE)
            /\ UNCHANGED <<chat, requests>>
       ELSE /\ Len(chat.messages) < MaxMsgs
            /\ InFlight < MaxRequests
            /\ LET userMessageText == chat.currentMessage IN
               /\ chat' = [chat EXCEPT
                             !.messages = Append(@,
                                ChatMessage("user", userMessageText)),
                             !.currentMessage = "",
                             !.isLoading = TRUE]
               /\ requests' = Issue(
                     [view |-> "chat", live |-> TRUE, op |-> "send",
                      prompt |-> userMessageText, image |-> NoFile])
            /\ lastEvent' = Event("chat.send", TRUE)
    /\ UNCHANGED <<ai, variant, activeTab, studio, panel, now, harnessVars>>

\* chat.sendMessage settles: a response text or a rejection
ChatReplies ==
    {Return("Hello there"),
     Throw(JsError("429 Too Many Requests")),
     Throw([kind |-> "object", has |-> {"userFriendlyMessage"},
            message |-> "", type |-> "",
            userFriendlyMessage |-> "Custom friendly text"])}

\* the cross-mark prefix (U+274C and a space) of a failure message, written
\* in ASCII
FailureMarker == "[x] "

chatSuccess(st, text) ==
    [st EXCEPT !.messages = Append(@, ChatMessage("model", text)),
               !.isLoading = FALSE]

chatFailure(st, error) ==
    LET friendlyErrorMessage == getUserFriendlyErrorMessage(error) IN
    [st EXCEPT !.messages = Append(@,
                  ChatMessage("model", FailureMarker \o friendlyErrorMessage)),
               !.isLoading = FALSE]

\* handleSendMessage from the await on
ChatResolve(request, reply) ==
    /\ BagIn(request, requests)
    /\ request.view = "chat"
    /\ chat' =
         IF ~request.live THEN chat
         ELSE IF reply.tag = "return" THEN chatSuccess(chat, reply.url)
         ELSE chatFailure(chat, reply.error)
    /\ lastEvent' = Settled("chat.resolve", request, reply)
    /\ requests' = Settle(request)
    /\ UNCHANGED <<ai, variant, activeTab, studio, panel, now, harnessVars>>

Next ==
    \/ \E tabName \in {"studio", "chat"} : SetActiveTab(tabName)
    \/ Tick
    \/ \E value \in Prompts : StudioSetPrompt(value)
    \/ \E file \in Files : StudioHandleFileChange(file)
    \/ StudioHandleRemoveImage
    \/ StudioHandleSubmit
    \/ \E request \in BagToSet(requests), remote \in ViewOutcomes :
          StudioResolve(request, remote)
    \/ \E value \in Prompts : PanelSetPrompt(value)
    \/ \E file \in Files : PanelHandleFileChange(file)
    \/ \E request \in BagToSet(requests) : PanelReadEnd(request)
    \/ \E action \in {"generate", "edit"} : PanelHandleAction(action)
    \/ \E request \in BagToSet(requests), remote \in ViewOutcomes :
          PanelResolve(request, remote)
    \/ \E value \in Prompts : ChatSetCurrentMessage(value)
    \/ ChatHandleSendMessage
    \/ \E request \in BagToSet(requests), reply \in ChatReplies :
          ChatResolve(request, reply)

Spec == UiInit /\ [][Next]_vars

----------------------------------------------------------------------------
(* Claims about the classifier (SpecClassify) *)

\* an input already shaped as a classified error: an object carrying both
\* a category field and a user-message field
Shaped(v) ==
    /\ v.kind \in {"Error", "object"}
    /\ {"type", "userFriendlyMessage"} \subseteq v.has

\* the keyword sets in their priority order, as the specification lists them
PriorityTable ==
    << [category |-> API_KEY_INVALID,
        keywords |-> {"api key", "unauthorized", "401", "403",
                      "authentication", "permission denied"}],
       [category |-> RATE_LIMIT_EXCEEDED,
        keywords |-> {"rate limit", "429", "too many requests", "request rate"}],
       [category |-> QUOTA_EXCEEDED,
        keywords |-> {"quota", "billing", "payment", "resource exhausted"}],
       [category |-> NETWORK_ERROR,
        keywords |-> {"network", "fetch", "connection", "timeout",
                      "econnrefused", "enotfound"}],
       [category |-> SERVICE_UNAVAILABLE,
        keywords |-> {"503", "service unavailable", "temporarily unavailable",
                      "maintenance"}],
       [category |-> CONTENT_BLOCKED,
        keywords |-> {"blocked", "safety", "content policy", "not allowed"}] >>

MatchingSets(message) ==
    LET lowered == toLowerCase(message) IN
    {i \in 1..Len(PriorityTable) :
        \E k \in PriorityTable[i].keywords : includes(lowered, k)}

FirstCategory(message) ==
    LET hits == MatchingSets(message) IN
    IF hits = {} THEN UNKNOWN_ERROR
    ELSE PriorityTable[CHOOSE i \in hits : \A j \in hits : i <= j].category

\* C1: for every raw (not already classified) input, parseApiError returns
\* the category of the first keyword set, in the order auth, rate, quota,
\* network, availability, safety, that has a keyword in the lower-cased
\* message, and unknown when none matches.
C1_PriorityOrder ==
    (Len(ret) >= 1 /\ ~Shaped(arg))
        => ret[1].type = FirstCategory(errorMessageOf(arg))

\* a classified message that holds an auth keyword and a network keyword
C1_Witness ==
    /\ Len(ret) >= 1
    /\ ~Shaped(arg)
    /\ 1 \in MatchingSets(errorMessageOf(arg))
    /\ 4 \in MatchingSets(errorMessageOf(arg))
    /\ ret[1].type = API_KEY_INVALID

\* C2: an input that is an object carrying both type and
\* userFriendlyMessage is returned unchanged, and classifying the result of
\* a classification again returns that result.
C2_PassThrough ==
    /\ (Len(ret) >= 1 /\ Shaped(arg)) => ret[1] = arg
    /\ Len(ret) = 2 => ret[2] = ret[1]

\* an already classified input that went through the classifier twice
C2_Witness ==
    /\ Len(ret) = 2
    /\ Shaped(arg)
    /\ arg.kind = "Error"
    /\ ret[2] = arg

\* C3: every input yields a result whose category is one of the eight
\* enumerated categories and whose user-facing message is non-empty.
C3_Total ==
    Len(ret) >= 1
        => /\ "type" \in ret[1].has
           /\ ret[1].type \in ErrorType
           /\ "userFriendlyMessage" \in ret[1].has
           /\ ret[1].userFriendlyMessage # ""

----------------------------------------------------------------------------
(* Claims about the response parser (SpecParse) *)

InlineParts(candidate) ==
    {candidate.parts[i] : i \in {j \in 1..Len(candidate.parts) :
                                    candidate.parts[j].inlineData}}

AllInlineParts(response) ==
    UNION {InlineParts(response.candidates[i]) :
             i \in 1..Len(response.candidates)}

FirstInlinePart(candidate) ==
    candidate.parts[CHOOSE i \in 1..Len(candidate.parts) :
        /\ candidate.parts[i].inlineData
        /\ \A j \in 1..(i - 1) : ~candidate.parts[j].inlineData]

ExpectedUri(part) == "data:" \o part.mimeType \o ";base64," \o part.data

\* C4 as stated: whenever any candidate holds an inline-data part, the
\* parser returns the data URI built from such a part.
C4_AnyCandidate ==
    (Len(ret) >= 1 /\ AllInlineParts(arg) # {})
        => /\ ret[1].tag = "return"
           /\ \E p \in AllInlineParts(arg) : ret[1].url = ExpectedUri(p)

\* C4 as amended: whenever the FIRST candidate holds an inline-data part,
\* the parser returns data:<mimeType>;base64,<payload> built from the first
\* such part of the first candidate, whatever promptFeedback, finishReason
\* and text hold; parts of later candidates are never read.
C4_FirstCandidate ==
    (Len(ret) >= 1 /\ Len(arg.candidates) >= 1
                   /\ InlineParts(arg.candidates[1]) # {})
        => ret[1] = Return(ExpectedUri(FirstInlinePart(arg.candidates[1])))

\* an image returned although a block reason, a NO_IMAGE finish reason and
\* a text are present as well
C4_Witness ==
    /\ Len(ret) >= 1
    /\ Len(arg.candidates) >= 1
    /\ InlineParts(arg.candidates[1]) # {}
    /\ arg.blockReason # ""
    /\ arg.candidates[1].finishReason = "NO_IMAGE"
    /\ arg.text # ""
    /\ ret[1].tag = "return"
    /\ ret[1].url = "data:image/jpeg;base64,/9j/4AAQ"

\* C5: with no inline-data part and a block reason present, the parser
\* raises a failure that parseApiError classifies as content-blocked and
\* whose message mentions the block reason.
C5_BlockedCategory ==
    (Len(ret) = 2 /\ AllInlineParts(arg) = {} /\ arg.blockReason # "")
        => /\ ret[1].tag = "throw"
           /\ includes(ret[1].error.message, arg.blockReason)
           /\ ret[2].type = CONTENT_BLOCKED

\* C6: with no inline-data part, no block reason, finish reason NO_IMAGE
\* and a non-empty text T, the parser raises a failure of category unknown
\* whose message quotes T character for character.
C6_NoImageQuotesText ==
    (Len(ret) = 2 /\ AllInlineParts(arg) = {} /\ arg.blockReason = ""
                  /\ firstFinishReason(arg) = "NO_IMAGE" /\ arg.text # "")
        => /\ ret[1].tag = "throw"
           /\ includes(ret[1].error.message, "\"" \o arg.text \o "\"")
           /\ ret[2].type = UNKNOWN_ERROR

----------------------------------------------------------------------------
(* Claims about the generation client (SpecService) *)

\* C7: without a configured credential, generateImage and editImage fail
\* with category not-configured, before any network call or image encoding.
C7_NotConfigured ==
    (~ai /\ Len(ret) = 2)
        => /\ ret[1].result.tag = "throw"
           /\ ret[1].calls = <<>>
           /\ ret[1].encodings = 0
           /\ ret[2].type = API_NOT_CONFIGURED

\* the part of C7 the code does satisfy: the call fails before any network
\* call and before any image is encoded
C7_FailFast ==
    (~ai /\ Len(ret) >= 1)
        => /\ ret[1].result = Throw(JsError(NotConfiguredMessage))
           /\ ret[1].calls = <<>>
           /\ ret[1].encodings = 0

----------------------------------------------------------------------------
(* Claims about the views (Spec) *)

\* a prompt that is empty or holds only whitespace
Blank(text) ==
    \A i \in 1..Len(text) : charAt(text, i) \in {" ", "\t", "\n", "\r"}

LastOf(seq) == seq[Len(seq)]

\* C8: in both conversation modes (and in the two-panel studio), a submit
\* with an empty or whitespace-only prompt issues no remote call and leaves
\* the transcript (the result image of the two-panel studio), the pending
\* flag and the attached image as they were.
C8_BlankSubmit ==
    [][ /\ (studio.mounted /\ lastEvent'.name = "studio.submit"
                            /\ Blank(studio.prompt))
            => /\ requests' = requests
               /\ studio'.messages = studio.messages
               /\ studio'.isLoading = studio.isLoading
               /\ studio'.imageFile = studio.imageFile
        /\ (chat.mounted /\ lastEvent'.name = "chat.send"
                          /\ Blank(chat.currentMessage))
            => /\ requests' = requests
               /\ chat'.messages = chat.messages
               /\ chat'.isLoading = chat.isLoading
        /\ (panel.mounted /\ lastEvent'.name = "panel.action"
                           /\ Blank(panel.prompt))
            => /\ requests' = requests
               /\ panel'.resultImageUrl = panel.resultImageUrl
               /\ panel'.isLoading = panel.isLoading
               /\ panel'.imageFile = panel.imageFile ]_vars

\* a whitespace-only prompt was submitted, with an image attached, while
\* the studio was ready and idle
C8_Witness ==
    /\ studio.mounted
    /\ lastEvent.name = "studio.submit"
    /\ ~lastEvent.accepted
    /\ studio.prompt = "  "
    /\ studio.imageFile = PngFile
    /\ studio.isApiReady
    /\ ~studio.isLoading

\* C9: a successful generate call appends exactly two transcript entries:
\* at submit the user message carrying the prompt, and at completion,
\* directly after it, a model message carrying the returned image reference.
C9_GenerateAppendsTwo ==
    [][ /\ (lastEvent'.name = "studio.submit" /\ lastEvent'.accepted
                /\ studio.imageFile = NoFile)
            => /\ Len(studio'.messages) = Len(studio.messages) + 1
               /\ SubSeq(studio'.messages, 1, Len(studio.messages))
                     = studio.messages
               /\ LastOf(studio'.messages).role = "user"
               /\ LastOf(studio'.messages).text = studio.prompt
        /\ (lastEvent'.name = "studio.resolve"
                /\ lastEvent'.request.op = "generate"
                /\ lastEvent'.result.tag = "return")
            => /\ studio.mounted
               /\ LastOf(studio.messages).role = "user"
               /\ LastOf(studio.messages).text = lastEvent'.request.prompt
               /\ Len(studio'.messages) = Len(studio.messages) + 1
               /\ SubSeq(studio'.messages, 1, Len(studio.messages))
                     = studio.messages
               /\ LastOf(studio'.messages).role = "model"
               /\ LastOf(studio'.messages).imageUrl = lastEvent'.result.url
      ]_vars

\* C10: an edit call that fails with a quota-exceeded failure appends
\* exactly two transcript entries: the user message with the attached-image
\* reference, then a model message whose text contains the classifier's
\* quota-exceeded explanation.
C10_QuotaFailureText ==
    [][ (lastEvent'.name = "studio.resolve"
            /\ lastEvent'.request.op = "edit"
            /\ lastEvent'.result.tag = "throw"
            /\ parseApiError(lastEvent'.result.error).type = QUOTA_EXCEEDED)
        => /\ studio.mounted
           /\ LastOf(studio.messages).role = "user"
           /\ LastOf(studio.messages).originalImageUrl # ""
           /\ Len(studio'.messages) = Len(studio.messages) + 1
           /\ SubSeq(studio'.messages, 1, Len(studio.messages))
                 = studio.messages
           /\ LastOf(studio'.messages).role = "model"
           /\ includes(LastOf(studio'.messages).text, QuotaText)
      ]_vars

\* the remote calls of a conversation that have not settled yet
CallsInFlight(view) ==
    LET calls == {r \in BagToSet(requests) :
                     r.view = view /\ r.op \in {"generate", "edit", "send"}}
    IN  BagCardinality([r \in calls |-> CopiesIn(r, requests)])

\* C11: in every reachable state, whatever submits, completions and tab
\* switches came before, the studio conversation and the chat conversation
\* each have at most one remote request in flight.
C11_OneInFlight ==
    variant = "transcript"
        => /\ CallsInFlight("studio") <= 1
           /\ CallsInFlight("chat") <= 1

\* the transcript of a mode: the messages of the rendered view, and for a
\* mode that is not rendered the messages its view holds once it is
\* rendered again
StudioTranscript ==
    IF studio.mounted THEN studio.messages ELSE MountStudio.messages

ChatTranscript == IF chat.mounted THEN chat.messages ELSE MountChat.messages

IsPrefix(s, t) == Len(s) <= Len(t) /\ SubSeq(t, 1, Len(s)) = s

\* C12: in both conversation modes, when a remote call fails, the model
\* message appended to the transcript, and the error banner of the studio,
\* carry the failure marker followed by the user-facing message that
\* parseApiError yields for that failure.
C12_ClassifiedFailureShown ==
    [][ /\ (lastEvent'.name = "studio.resolve" /\ lastEvent'.accepted
                /\ lastEvent'.result.tag = "throw")
            => LET shown == FailureMarker \o
                     parseApiError(lastEvent'.result.error).userFriendlyMessage
               IN  /\ Len(studio'.messages) = Len(studio.messages) + 1
                   /\ LastOf(studio'.messages).role = "model"
                   /\ LastOf(studio'.messages).text = shown
                   /\ studio'.error = shown
        /\ (lastEvent'.name = "chat.resolve" /\ lastEvent'.accepted
                /\ lastEvent'.result.tag = "throw")
            => /\ Len(chat'.messages) = Len(chat.messages) + 1
               /\ LastOf(chat'.messages).role = "model"
               /\ LastOf(chat'.messages).text =
                     FailureMarker \o
                     parseApiError(lastEvent'.result.error).userFriendlyMessage
      ]_vars

\* C13: each mode's transcript is append-only: over every step (submit,
\* completion, file attach or remove, tab switch) the transcript before
\* the step is a prefix of the transcript after it.
C13_AppendOnly ==
    [][ /\ IsPrefix(StudioTranscript, StudioTranscript')
        /\ IsPrefix(ChatTranscript, ChatTranscript') ]_vars

\* C14: in every reachable studio transcript the message ids are pairwise
\* distinct.
C14_UniqueIds ==
    (variant = "transcript" /\ studio.mounted)
        => \A i, j \in 1..Len(studio.messages) :
              i # j => studio.messages[i].id # studio.messages[j].id

----------------------------------------------------------------------------
(* Further claims about the response parser (SpecParse) *)

\* C15: with no inline-data part, no block reason and a first-candidate
\* finish reason that is present and is neither STOP nor NO_IMAGE, the
\* parser raises a failure of category unknown whose message cites that
\* finish reason.
C15_FinishReasonUnknown ==
    (Len(ret) = 2 /\ AllInlineParts(arg) = {} /\ arg.blockReason = ""
                  /\ firstFinishReason(arg) \notin {"", "STOP", "NO_IMAGE"})
        => /\ ret[1].tag = "throw"
           /\ includes(ret[1].error.message, firstFinishReason(arg))
           /\ ret[2].type = UNKNOWN_ERROR

\* the check of the cascade that applies first to a response without an
\* inline-data part
CascadeCase(response) ==
    IF response.blockReason # "" THEN "block"
    ELSE IF firstFinishReason(response) \notin {"", "STOP"} THEN "finish"
    ELSE IF response.text # "" THEN "text"
    ELSE "generic"

\* C16: for a response without an inline-data part the failure is selected
\* by the cascade block reason, non-stop finish reason, accompanying text,
\* generic no-image-data failure; a lower check never decides when a higher
\* one applies, and the text and generic cases classify as unknown.
C16_Cascade ==
    (Len(ret) = 2 /\ AllInlineParts(arg) = {})
        => LET message == ret[1].error.message
               case == CascadeCase(arg)
           IN  /\ ret[1].tag = "throw"
               /\ case = "block"
                    => includes(message,
                          "Request blocked due to " \o arg.blockReason)
               /\ case = "finish"
                    => /\ ~includes(message, "Request blocked")
                       /\ \/ includes(message, firstFinishReason(arg))
                          \/ /\ firstFinishReason(arg) = "NO_IMAGE"
                             /\ \/ includes(message, "instead of an image")
                                \/ includes(message, "unable to generate")
                       /\ ~includes(message, "returned a text explanation")
                       /\ ~includes(message, "No image data found")
               /\ case = "text"
                    => /\ includes(message, "returned a text explanation")
                       /\ includes(message, "\"" \o trim(arg.text) \o "\"")
                       /\ ret[2].type = UNKNOWN_ERROR
               /\ case = "generic"
                    => /\ includes(message, "No image data found")
                       /\ ret[2].type = UNKNOWN_ERROR

----------------------------------------------------------------------------
(* Further claims about the views (Spec) *)

\* C17: an accepted submit clears the prompt and the attached image in the
\* step that appends the user message and sets the pending flag, and the
\* call it issues carries the prompt and the image the fields held before;
\* the completion step, success or failure, leaves the prompt and the
\* attached image as they are and reports on the captured prompt and image.
C17_ClearedAtSubmit ==
    [][ /\ (lastEvent'.name = "studio.submit" /\ lastEvent'.accepted)
            => /\ studio'.prompt = ""
               /\ studio'.imageFile = NoFile
               /\ studio'.isLoading
               /\ Len(studio'.messages) = Len(studio.messages) + 1
               /\ LastOf(studio'.messages).role = "user"
               /\ LastOf(studio'.messages).text = studio.prompt
               /\ \E op \in {"generate", "edit"} :
                     requests' = requests (+) SetToBag(
                        {[view |-> "studio", live |-> TRUE, op |-> op,
                          prompt |-> studio.prompt,
                          image |-> studio.imageFile]})
        /\ (lastEvent'.name = "studio.resolve" /\ lastEvent'.accepted)
            => /\ studio'.prompt = studio.prompt
               /\ studio'.imageFile = studio.imageFile
               /\ ~studio'.isLoading
               /\ lastEvent'.result.tag = "return"
                    => /\ includes(LastOf(studio'.messages).text,
                             "\"" \o lastEvent'.request.prompt \o "\"")
                       /\ LastOf(studio'.messages).originalImageUrl =
                             (IF lastEvent'.request.image # NoFile
                              THEN createObjectURL(lastEvent'.request.image)
                              ELSE "")
        /\ (lastEvent'.name = "chat.send" /\ lastEvent'.accepted)
            => /\ chat'.currentMessage = ""
               /\ chat'.isLoading
               /\ Len(chat'.messages) = Len(chat.messages) + 1
               /\ LastOf(chat'.messages) =
                     ChatMessage("user", chat.currentMessage)
               /\ requests' = requests (+) SetToBag(
                     {[view |-> "chat", live |-> TRUE, op |-> "send",
                       prompt |-> chat.currentMessage, image |-> NoFile]})
        /\ (lastEvent'.name = "chat.resolve" /\ lastEvent'.accepted)
            => /\ chat'.currentMessage = chat.currentMessage
               /\ ~chat'.isLoading
      ]_vars

\* an edit call completed with an image while the user had already attached
\* another file for the next request: the new attachment is still there and
\* the model message shows the image captured at submit time
C17_Witness ==
    /\ studio.mounted
    /\ lastEvent.name = "studio.resolve"
    /\ lastEvent.accepted
    /\ lastEvent.result.tag = "return"
    /\ lastEvent.request.image = PngFile
    /\ studio.imageFile = BrokenFile
    /\ studio.prompt = ""
    /\ LastOf(studio.messages).originalImageUrl = "blob:cat.png"

----------------------------------------------------------------------------
(* Progress of the views.  The continuation of an awaited call runs once   *)
(* the call has settled, and the browser fires onloadend once a read has   *)
(* ended: every call that can settle does settle.  Nothing obliges the     *)
(* user to type, submit or switch tabs.                                    *)

\* the step in which one of the calls in flight settles.  While a view is
\* pending it issues no further call, so its call is not overtaken for ever
Settles ==
    \/ \E request \in BagToSet(requests), remote \in ViewOutcomes :
          StudioResolve(request, remote)
    \/ \E request \in BagToSet(requests), remote \in ViewOutcomes :
          PanelResolve(request, remote)
    \/ \E request \in BagToSet(requests) : PanelReadEnd(request)
    \/ \E request \in BagToSet(requests), reply \in ChatReplies :
          ChatResolve(request, reply)

Fairness == WF_vars(Settles)

SpecLive == UiInit /\ [][Next]_vars /\ Fairness

StudioPending == studio.mounted /\ studio.isLoading

ChatPending == chat.mounted /\ chat.isLoading

\* C18: every accepted submit is eventually followed by its resolution:
\* the pending flag the submit has set is eventually cleared, on the
\* generate path and on the edit path, also when the attached image cannot
\* be read (here granted even when the view is left before that).
C18_EventuallyResolved ==
    /\ StudioPending ~> ~StudioPending
    /\ ChatPending ~> ~ChatPending

----------------------------------------------------------------------------
(* Claims about the error helpers (SpecHelpers) *)

\* C19: the helpers agree with the classifier: for every input e and every
\* category t, getUserFriendlyErrorMessage(e) is the user-facing message of
\* parseApiError(e) and isErrorType(e, t) tells whether the category of
\* parseApiError(e) is t, also for objects that carry only one of the
\* fields type and userFriendlyMessage.
C19_HelpersAgree ==
    Len(ret) = 1
        => /\ ret[1].call = "getUserFriendlyErrorMessage"
                => ret[1].text = parseApiError(arg).userFriendlyMessage
           /\ ret[1].call = "isErrorType"
                => ret[1].flag = (parseApiError(arg).type = ret[1].type)

====
